---- MODULE Spec2Model ----
(***************************************************************************)
(* Model of code_1.py: the diff-discrepancy pipeline (dataset generation   *)
(* over the configured repositories), the diff normalizer and the mismatch *)
(* statistics / plot step.                                                 *)
(*                                                                         *)
(* Text (diff output, file paths) is a sequence of one-character strings,  *)
(* so that splitlines, strip, startswith, endswith and contains are        *)
(* computed character by character as Python computes them.                *)
(***************************************************************************)
EXTENDS Integers, Sequences, FiniteSets, TLC

\* ---------------------------------------------------------------- bounds
\* Commit cap of the small repository (100 in the source); the large
\* repository gets a larger cap (300 in the source).
MaxCommits == 1
\* Longest modified_files list of a commit.
MaxFiles == 2
\* Longest diff text given to normalize_diff, in pieces of DiffPieces.
MaxPieces == 4
\* Most data rows of a dataset handed to the statistics step on its own.
MaxRows == 3

\* ------------------------------------------------------- Python values
None == <<"None">>
NaN == <<"NaN">>

\* str.isspace characters that occur in the modelled texts
Whitespace == {" ", "\t", "\n", "\r"}
\* line boundaries of str.splitlines that occur in the modelled texts
LineBreaks == {"\n", "\r"}

UpperCase == <<"A","B","C","D","E","F","G","H","I","J","K","L","M",
               "N","O","P","Q","R","S","T","U","V","W","X","Y","Z">>
LowerCase == <<"a","b","c","d","e","f","g","h","i","j","k","l","m",
               "n","o","p","q","r","s","t","u","v","w","x","y","z">>

lower_char(c) ==
    IF \E i \in 1..Len(UpperCase) : UpperCase[i] = c
    THEN LowerCase[CHOOSE i \in 1..Len(UpperCase) : UpperCase[i] = c]
    ELSE c

lower(s) == [i \in 1..Len(s) |-> lower_char(s[i])]

startswith(s, prefix) ==
    Len(s) >= Len(prefix) /\ SubSeq(s, 1, Len(prefix)) = prefix

endswith(s, suffix) ==
    Len(s) >= Len(suffix) /\ SubSeq(s, Len(s) - Len(suffix) + 1, Len(s)) = suffix

contains(s, pat) ==
    \E i \in 0..(Len(s) - Len(pat)) : SubSeq(s, i + 1, i + Len(pat)) = pat

RECURSIVE lstrip(_)
lstrip(s) == IF s # <<>> /\ s[1] \in Whitespace THEN lstrip(Tail(s)) ELSE s

RECURSIVE rstrip(_)
rstrip(s) ==
    IF s # <<>> /\ s[Len(s)] \in Whitespace
    THEN rstrip(SubSeq(s, 1, Len(s) - 1))
    ELSE s

strip(s) == rstrip(lstrip(s))

\* str.splitlines: "\n", "\r" and "\r\n" end a line; no empty last line
\* after a final line break; the empty string has no lines.
RECURSIVE splitlines(_)
splitlines(s) ==
    IF s = <<>> THEN <<>>
    ELSE IF \A i \in 1..Len(s) : s[i] \notin LineBreaks THEN <<s>>
    ELSE LET i == CHOOSE k \in 1..Len(s) :
                      /\ s[k] \in LineBreaks
                      /\ \A j \in 1..(k - 1) : s[j] \notin LineBreaks
             n == IF s[i] = "\r" /\ i < Len(s) /\ s[i + 1] = "\n"
                  THEN i + 1 ELSE i
         IN  <<SubSeq(s, 1, i - 1)>> \o splitlines(SubSeq(s, n + 1, Len(s)))

RECURSIVE join(_, _)
join(sep, parts) ==
    IF parts = <<>> THEN <<>>
    ELSE IF Len(parts) = 1 THEN parts[1]
    ELSE parts[1] \o sep \o join(sep, Tail(parts))

\* ------------------------------------------------------ normalize_diff
IndexMarker == <<"i","n","d","e","x">>
OldFileMarker == <<"-","-","-">>
NewFileMarker == <<"+","+","+">>

\* the filter of the comprehension: tested on the line before it is stripped
keep_line(line) ==
    /\ ~startswith(line, IndexMarker)
    /\ ~startswith(line, OldFileMarker)
    /\ ~startswith(line, NewFileMarker)

\* a variant that strips the line before testing it
normalize_lines_strip_first(diff_text) ==
    LET stripped == [i \in 1..Len(splitlines(diff_text)) |->
                        strip(splitlines(diff_text)[i])]
    IN  SelectSeq(stripped, keep_line)

\* the list `lines` of normalize_diff
normalize_lines(diff_text) ==
    LET kept == SelectSeq(splitlines(diff_text), keep_line)
    IN  [i \in 1..Len(kept) |-> strip(kept[i])]

normalize_diff(diff_text) == join(<<"\n">>, normalize_lines(diff_text))

\* ------------------------------------------------------------ the world
\* Configured repositories, in declaration order (a dict keeps insertion
\* order).  The caps are scaled down from 100 / 300.
repos ==
    << [name |-> <<"M","a","x","K","B">>,
        url |-> "https://github.com/1Panel-dev/MaxKB.git",
        max_commits |-> MaxCommits],
       [name |-> <<"m","a","n","i","m">>,
        url |-> "https://github.com/3b1b/manim.git",
        max_commits |-> MaxCommits + 1] >>

BASE_DIR == <<"r","e","p","o","s">>

path_join(a, b) == a \o <<"/">> \o b

\* File paths that occur in the traversed commits.
LicensePath == <<"L","I","C","E","N","S","E">>
DocPath == <<"a",".","m","d">>
OldDocPath == <<"b",".","m","d">>
TestPath == <<"t","e","s","t",".","p","y">>
ReadmePath == <<"R","E","A","D","M","E">>

\* Modified files as the commit-mining library reports them: an added
\* file has no old path, a deleted file has no new path.
AddedFile == [old_path |-> None, new_path |-> LicensePath]
DeletedFile == [old_path |-> DocPath, new_path |-> None]
ChangedFile == [old_path |-> TestPath, new_path |-> TestPath]
RenamedFile == [old_path |-> OldDocPath, new_path |-> ReadmePath]

ModifiedFiles == {AddedFile, DeletedFile, ChangedFile, RenamedFile}

\* the modified_files lists of a commit: each file at most once
FileLists ==
    UNION { { fl \in [1..n -> ModifiedFiles] :
                \A i, j \in 1..n : i # j => fl[i] # fl[j] } : n \in 0..MaxFiles }

Digits == <<"0","1","2","3","4","5","6","7","8","9">>
\* the hash of the n-th commit the traversal yields (n = 0: an older commit)
hash_of(n) == <<"c", Digits[n + 1]>>

CommitMsg == <<" ","f","i","x","\n">>

\* Output of `git diff` (stdout of run_git_diff), as <<myers, histogram>>,
\* that the repository content can produce for a path.
DiffXY == <<"-","x","\n","+","y">>
DiffXYZ == <<"-","x","\n","+","y","\n","+","z">>
DiffHdr1 == <<"i","n","d","e","x"," ","1","\n","-","x">>
DiffHdr2 == <<"i","n","d","e","x"," ","2","\n","-","x"," ">>

git_diff_outputs(file_path) ==
    IF file_path = TestPath
    THEN { <<DiffXY, DiffXY>>, <<DiffXY, DiffXYZ>> }
    ELSE { <<DiffHdr1, DiffHdr2>> }

\* ---------------------------------------------------------------- state
VARIABLES
    pc,            \* position of the script
    csv,           \* lines of diff_dataset_final.csv
    ri,            \* index of the repository of the outer loop
    commit_count,  \* commit_count of the current repository
    pos,           \* commits the running traversal has yielded (0: none runs)
    commit,        \* loop variable `commit`
    mi,            \* index of the next element of commit.modified_files
    traversed,     \* per repository, the commits whose loop body ran
    diff_calls,    \* invocations of run_git_diff, in order
    counts,        \* counts of the statistics step
    printed,       \* the "cat: count" lines printed
    chart,         \* "none", "saved" (mismatch_statistics.png) or "skipped"
    T,             \* a diff text given to normalize_diff
    lines1,        \* the list `lines` of normalize_diff(T)
    n1,            \* normalize_diff(T)
    n2,            \* normalize_diff(normalize_diff(T))
    npc            \* how often normalize_diff was applied to T

vars == <<pc, csv, ri, commit_count, pos, commit, mi, traversed, diff_calls,
          counts, printed, chart, T, lines1, n1, n2, npc>>

pipeline_vars == <<pc, csv, ri, commit_count, pos, commit, mi, traversed,
                   diff_calls, counts, printed, chart>>
norm_vars == <<T, lines1, n1, n2, npc>>

Columns ==
    << "repo", "old_file_path", "new_file_path", "commit_SHA",
       "parent_commit_SHA", "commit_message",
       "diff_myers", "diff_hist", "Discrepancy" >>

Yes == <<"Y","e","s">>
No == <<"N","o">>

HeaderLine == [kind |-> "header", cells |-> Columns]
DataLine(cells) == [kind |-> "row", cells |-> cells]

column(name) == CHOOSE i \in 1..Len(Columns) : Columns[i] = name
field(line, name) == line.cells[column(name)]


\* ------------------------------------------------- dataset generation
\* line 79
path_absent_new_only(mod) == mod.new_path = None

path_absent(mod) == mod.old_path = None \/ mod.new_path = None

\* line 81
is_root(c) == c.parents = <<>>

\* line 74
cap_reached_off_by_one(count, max_commits) == count > max_commits

cap_reached(count, max_commits) == count >= max_commits

\* lines 95-96, with the two verdicts exchanged
discrepancy_swapped(norm_myers, norm_hist) ==
    IF \/ norm_myers # norm_hist
       \/ Len(splitlines(norm_myers)) # Len(splitlines(norm_hist))
    THEN No ELSE Yes

\* lines 95-96
discrepancy(norm_myers, norm_hist) ==
    IF \/ norm_myers # norm_hist
       \/ Len(splitlines(norm_myers)) # Len(splitlines(norm_hist))
    THEN Yes ELSE No

\* csv.writer.writerow on the open file: the line goes to the end
writerow_at_front(file, cells) ==
    <<file[1], DataLine(cells)>> \o Tail(file)

writerow(file, cells) == Append(file, DataLine(cells))

git_call(repo_path, parent, commit_hash, file_path, algo) ==
    [repo_path |-> repo_path, parent |-> parent, commit_hash |-> commit_hash,
     file_path |-> file_path, algo |-> algo]

NoCommit == [hash |-> None, parents |-> <<>>, msg |-> <<>>, modified_files |-> <<>>]

no_counts == [c \in {} |-> 0]

PipelineIdle ==
    /\ csv = <<>> /\ ri = 0 /\ commit_count = 0 /\ pos = 0
    /\ commit = NoCommit /\ mi = 0
    /\ traversed = [r \in 1..Len(repos) |-> <<>>]
    /\ diff_calls = <<>>
    /\ counts = no_counts /\ printed = <<>> /\ chart = "none"

NormIdle == T = <<>> /\ lines1 = <<>> /\ n1 = <<>> /\ n2 = <<>> /\ npc = "idle"

Init == pc = "open" /\ PipelineIdle /\ NormIdle

\* lines 60-66: open the file for writing (truncating it), write the header
OpenDataset ==
    /\ pc = "open"
    /\ csv' = <<HeaderLine>>
    /\ ri' = 1
    /\ pc' = "repo"
    /\ UNCHANGED <<commit_count, pos, commit, mi, traversed, diff_calls,
                   counts, printed, chart, norm_vars>>

\* lines 68-72: the next repository; a fresh traversal, commit_count = 0
StartRepo ==
    /\ pc = "repo"
    /\ ri <= Len(repos)
    /\ commit_count' = 0
    /\ pos' = 0
    /\ pc' = "commit"
    /\ UNCHANGED <<csv, ri, commit, mi, traversed, diff_calls,
                   counts, printed, chart, norm_vars>>

\* line 68 exhausted, line 103: the file is closed
CloseDataset ==
    /\ pc = "repo"
    /\ ri > Len(repos)
    /\ pc' = "stats"
    /\ UNCHANGED <<csv, ri, commit_count, pos, commit, mi, traversed,
                   diff_calls, counts, printed, chart, norm_vars>>

\* line 73: the traversal has no further commit
TraversalExhausted ==
    /\ pc = "commit"
    /\ pos' = 0
    /\ ri' = ri + 1
    /\ pc' = "repo"
    /\ UNCHANGED <<csv, commit_count, commit, mi, traversed, diff_calls,
                   counts, printed, chart, norm_vars>>

\* lines 73-75: the traversal yields a commit and the cap is reached: break.
\* The fields of the yielded commit are computed on access and never read.
CapReached ==
    /\ pc = "commit"
    /\ cap_reached(commit_count, repos[ri].max_commits)
    /\ pos' = 0
    /\ commit' = [NoCommit EXCEPT !.hash = hash_of(pos + 1)]
    /\ ri' = ri + 1
    /\ pc' = "repo"
    /\ UNCHANGED <<csv, commit_count, mi, traversed, diff_calls,
                   counts, printed, chart, norm_vars>>

\* lines 73-78: the traversal yields a commit below the cap: count it and
\* start on its modified files
YieldCommit ==
    /\ pc = "commit"
    /\ ~cap_reached(commit_count, repos[ri].max_commits)
    /\ \E ps \in {<<>>, <<hash_of(pos)>>}, fl \in FileLists :
         LET c == [hash |-> hash_of(pos + 1), parents |-> ps,
                   msg |-> CommitMsg, modified_files |-> fl]
         IN  /\ commit' = c
             /\ traversed' = [traversed EXCEPT ![ri] = Append(@, c)]
    /\ pos' = pos + 1
    /\ commit_count' = commit_count + 1
    /\ mi' = 1
    /\ pc' = "mods"
    /\ UNCHANGED <<csv, ri, diff_calls, counts, printed, chart, norm_vars>>

\* lines 78-101 for one element of commit.modified_files
ProcessMod_skip_ends_loop ==
    /\ pc = "mods"
    /\ mi <= Len(commit.modified_files)
    /\ LET mod == commit.modified_files[mi]
           name == repos[ri].name
           repo_path == path_join(BASE_DIR, name)
       IN  IF path_absent(mod) \/ is_root(commit)
           THEN /\ mi' = Len(commit.modified_files) + 1
                /\ UNCHANGED <<csv, diff_calls>>
           ELSE \E out \in git_diff_outputs(mod.new_path) :
                  LET parent == commit.parents[1]
                      diff_myers == out[1]
                      diff_hist == out[2]
                  IN  /\ diff_calls' = diff_calls \o
                           << git_call(repo_path, parent, commit.hash, mod.new_path, "myers"),
                              git_call(repo_path, parent, commit.hash, mod.new_path, "histogram") >>
                      /\ csv' = writerow(csv,
                           << name, mod.old_path, mod.new_path, commit.hash,
                              parent, strip(commit.msg), diff_myers, diff_hist,
                              discrepancy(normalize_diff(diff_myers),
                                          normalize_diff(diff_hist)) >>)
                      /\ mi' = mi + 1
    /\ UNCHANGED <<pc, ri, commit_count, pos, commit, traversed,
                   counts, printed, chart, norm_vars>>

\* a variant without the root-commit test: the row of a root commit has no parent
ProcessMod_no_root_test ==
    /\ pc = "mods"
    /\ mi <= Len(commit.modified_files)
    /\ LET mod == commit.modified_files[mi]
           name == repos[ri].name
           repo_path == path_join(BASE_DIR, name)
       IN  IF path_absent(mod)
           THEN UNCHANGED <<csv, diff_calls>>
           ELSE \E out \in git_diff_outputs(mod.new_path) :
                  LET parent == IF is_root(commit) THEN None ELSE commit.parents[1]
                      diff_myers == out[1]
                      diff_hist == out[2]
                  IN  /\ diff_calls' = diff_calls \o
                           << git_call(repo_path, parent, commit.hash, mod.new_path, "myers"),
                              git_call(repo_path, parent, commit.hash, mod.new_path, "histogram") >>
                      /\ csv' = writerow(csv,
                           << name, mod.old_path, mod.new_path, commit.hash,
                              parent, strip(commit.msg), diff_myers, diff_hist,
                              discrepancy(normalize_diff(diff_myers),
                                          normalize_diff(diff_hist)) >>)
    /\ mi' = mi + 1
    /\ UNCHANGED <<pc, ri, commit_count, pos, commit, traversed,
                   counts, printed, chart, norm_vars>>

ProcessMod ==
    /\ pc = "mods"
    /\ mi <= Len(commit.modified_files)
    /\ LET mod == commit.modified_files[mi]
           name == repos[ri].name
           repo_path == path_join(BASE_DIR, name)
       IN  IF path_absent(mod) \/ is_root(commit)
           THEN UNCHANGED <<csv, diff_calls>>
           ELSE \E out \in git_diff_outputs(mod.new_path) :
                  LET parent == commit.parents[1]
                      diff_myers == out[1]
                      diff_hist == out[2]
                  IN  /\ diff_calls' = diff_calls \o
                           << git_call(repo_path, parent, commit.hash, mod.new_path, "myers"),
                              git_call(repo_path, parent, commit.hash, mod.new_path, "histogram") >>
                      /\ csv' = writerow(csv,
                           << name, mod.old_path, mod.new_path, commit.hash,
                              parent, strip(commit.msg), diff_myers, diff_hist,
                              discrepancy(normalize_diff(diff_myers),
                                          normalize_diff(diff_hist)) >>)
    /\ mi' = mi + 1
    /\ UNCHANGED <<pc, ri, commit_count, pos, commit, traversed,
                   counts, printed, chart, norm_vars>>

\* line 78 exhausted: back to the traversal
EndCommit ==
    /\ pc = "mods"
    /\ mi > Len(commit.modified_files)
    /\ pc' = "commit"
    /\ UNCHANGED <<csv, ri, commit_count, pos, commit, mi, traversed,
                   diff_calls, counts, printed, chart, norm_vars>>

\* ------------------------------------------------- statistics and plot
\* values pandas.read_csv turns into NaN
NaValues ==
    { <<>>, <<"N","A">>, <<"N","U","L","L">>, <<"N","a","N">>, <<"n","a","n">>,
      <<"n","u","l","l">>, <<"N","o","n","e">>, <<"N","/","A">>, <<"n","/","a">> }

\* line 110: the first line names the columns, every other line is a record
read_csv(file) ==
    LET header == file[1].cells
        data == Tail(file)
    IN  [i \in 1..Len(data) |->
            [c \in {header[k] : k \in 1..Len(header)} |->
                LET cell == data[i].cells[CHOOSE k \in 1..Len(header) : header[k] = c]
                IN  IF cell \in NaValues THEN NaN ELSE cell]]

CategoryNames == <<"Source Code", "Test Code", "README", "LICENSE">>

SourceSuffixes ==
    { <<".","p","y">>, <<".","c","p","p">>, <<".","j","a","v","a">>,
      <<".","j","s">>, <<".","t","s">>, <<".","c">> }

\* Series.str.endswith(tuple, na=False)
str_endswith(value, suffixes) ==
    IF value = NaN THEN FALSE ELSE \E sfx \in suffixes : endswith(value, sfx)

\* Series.str.contains(pat, case=False, na=False)
str_contains_nocase(value, pat) ==
    IF value = NaN THEN FALSE ELSE contains(lower(value), lower(pat))

\* lines 113-120: the predicate of each category on new_file_path
in_category(cat, new_file_path) ==
    CASE cat = "Source Code" -> str_endswith(new_file_path, SourceSuffixes)
      [] cat = "Test Code" -> str_contains_nocase(new_file_path, <<"t","e","s","t">>)
      [] cat = "README" -> str_contains_nocase(new_file_path, <<"R","E","A","D","M","E">>)
      [] cat = "LICENSE" -> str_contains_nocase(new_file_path, <<"L","I","C","E","N","S","E">>)

is_mismatch(r) == r["Discrepancy"] = Yes

\* line 111
mismatches_of(df) == SelectSeq(df, is_mismatch)

\* a variant that puts each row into the first category it matches only
categories_exclusive(mismatches) ==
    [cat \in {CategoryNames[k] : k \in 1..Len(CategoryNames)} |->
        LET k == CHOOSE j \in 1..Len(CategoryNames) : CategoryNames[j] = cat
            sel(r) == /\ in_category(cat, r["new_file_path"])
                      /\ \A j \in 1..(k - 1) :
                            ~in_category(CategoryNames[j], r["new_file_path"])
        IN  SelectSeq(mismatches, sel)]

\* lines 113-120
categories(mismatches) ==
    [cat \in {CategoryNames[k] : k \in 1..Len(CategoryNames)} |->
        LET sel(r) == in_category(cat, r["new_file_path"])
        IN  SelectSeq(mismatches, sel)]

\* all(counts.values()) in place of any
all_counts(cs) == \A cat \in DOMAIN cs : cs[cat] # 0

\* line 128: any(counts.values())
any_count(cs) == \E cat \in DOMAIN cs : cs[cat] # 0

\* lines 110-126
Stats ==
    /\ pc = "stats"
    /\ LET df == read_csv(csv)
           cats == categories(mismatches_of(df))
           cs == [cat \in DOMAIN cats |-> Len(cats[cat])]
       IN  /\ counts' = cs
           /\ printed' = [k \in 1..Len(CategoryNames) |->
                             <<CategoryNames[k], cs[CategoryNames[k]]>>]
    /\ pc' = "plot"
    /\ UNCHANGED <<csv, ri, commit_count, pos, commit, mi, traversed,
                   diff_calls, chart, norm_vars>>

\* lines 128-138
Plot ==
    /\ pc = "plot"
    /\ chart' = IF any_count(counts) THEN "saved" ELSE "skipped"
    /\ pc' = "done"
    /\ UNCHANGED <<csv, ri, commit_count, pos, commit, mi, traversed,
                   diff_calls, counts, printed, norm_vars>>

Next ==
    \/ OpenDataset
    \/ StartRepo
    \/ CloseDataset
    \/ TraversalExhausted
    \/ CapReached
    \/ YieldCommit
    \/ ProcessMod
    \/ EndCommit
    \/ Stats
    \/ Plot

Spec == Init /\ [][Next]_vars

\* ------------------------------------------- normalize_diff on its own
\* Diff texts: up to MaxPieces pieces, each a blank, a line break, a marker
\* word or a content character.
DiffPieces ==
    { <<" ">>, <<"\n">>, <<"\r">>, <<"x">>, IndexMarker, OldFileMarker, NewFileMarker }

RECURSIVE concat(_)
concat(ps) == IF ps = <<>> THEN <<>> ELSE ps[1] \o concat(Tail(ps))

DiffTexts ==
    { concat(ps) : ps \in UNION { [1..n -> DiffPieces] : n \in 0..MaxPieces } }

InitNorm ==
    /\ pc = "idle" /\ PipelineIdle
    /\ T \in DiffTexts
    /\ lines1 = <<>> /\ n1 = <<>> /\ n2 = <<>>
    /\ npc = "raw"

\* lines 26-32 applied to T
NormalizeOnce ==
    /\ npc = "raw"
    /\ lines1' = normalize_lines(T)
    /\ n1' = normalize_diff(T)
    /\ npc' = "once"
    /\ UNCHANGED <<pipeline_vars, T, n2>>

\* lines 26-32 applied to the result
NormalizeTwice ==
    /\ npc = "once"
    /\ n2' = normalize_diff(n1)
    /\ npc' = "twice"
    /\ UNCHANGED <<pipeline_vars, T, lines1, n1>>

NextNorm == NormalizeOnce \/ NormalizeTwice

SpecNorm == InitNorm /\ [][NextNorm]_vars

\* ------------------------------------- statistics on a written dataset
\* new_file_path values of the datasets given to the statistics step
ReportPaths ==
    { TestPath,                                   \* Source Code and Test Code
      <<"a",".","c">>,                            \* Source Code
      ReadmePath,                                 \* README
      LicensePath,                                \* LICENSE
      <<"T","e","s","t","s","/","R","e","a","d","M","e">>,  \* Test Code and README
      DocPath,                                    \* no category
      <<"N","A">> }                               \* read back as NaN

\* data lines the pipeline writes for a path: the verdict belongs to the diffs
ReportLines ==
    { DataLine(<< repos[1].name, p, p, hash_of(1), hash_of(0), strip(CommitMsg),
                  out[1], out[2],
                  discrepancy(normalize_diff(out[1]), normalize_diff(out[2])) >>) :
        p \in ReportPaths, out \in git_diff_outputs(TestPath) }

Datasets ==
    { <<HeaderLine>> \o ls : ls \in UNION { [1..n -> ReportLines] : n \in 0..MaxRows } }

InitReport ==
    /\ pc = "stats"
    /\ csv \in Datasets
    /\ ri = Len(repos) + 1 /\ commit_count = 0 /\ pos = 0
    /\ commit = NoCommit /\ mi = 0
    /\ traversed = [r \in 1..Len(repos) |-> <<>>]
    /\ diff_calls = <<>>
    /\ counts = no_counts /\ printed = <<>> /\ chart = "none"
    /\ NormIdle

NextReport == Stats \/ Plot

SpecReport == InitReport /\ [][NextReport]_vars

\* ================================================================ claims
Finished == pc \in {"stats", "plot", "done"}

\* indices of the data lines of the dataset
DataIdx == { i \in 1..Len(csv) : csv[i].kind = "row" }

\* (repository, commit, file) positions of the commits whose loop body ran
Pairs ==
    { <<r, k, j>> \in (1..Len(repos)) \X (1..(MaxCommits + 2)) \X (1..(MaxFiles + 1)) :
        /\ k <= Len(traversed[r])
        /\ j <= Len(traversed[r][k].modified_files) }

CommitAt(p) == traversed[p[1]][p[2]]
ModAt(p) == CommitAt(p).modified_files[p[3]]

\* the commit has a parent and the file has both paths
Qualifies(p) ==
    /\ CommitAt(p).parents # <<>>
    /\ ModAt(p).old_path # None
    /\ ModAt(p).new_path # None

\* the data line was written for the pair
LineOf(line, p) ==
    /\ field(line, "repo") = repos[p[1]].name
    /\ field(line, "commit_SHA") = CommitAt(p).hash
    /\ field(line, "old_file_path") = ModAt(p).old_path
    /\ field(line, "new_file_path") = ModAt(p).new_path

\* the loop over the files of the commit at p has ended
CommitDone(p) ==
    \/ p[1] < ri
    \/ p[2] < Len(traversed[p[1]])
    \/ pc # "mods"
    \/ mi > Len(commit.modified_files)

LineCount(text) == Len(splitlines(text))

\* C2: the Discrepancy of every data line is "Yes" exactly when the two
\* normalized diffs differ or have different numbers of lines, else "No";
\* identical raw diffs give "No".
C2_Verdict ==
    \A i \in DataIdx :
        LET m == field(csv[i], "diff_myers")
            h == field(csv[i], "diff_hist")
            differ == \/ normalize_diff(m) # normalize_diff(h)
                      \/ LineCount(normalize_diff(m)) # LineCount(normalize_diff(h))
        IN  /\ field(csv[i], "Discrepancy") \in {Yes, No}
            /\ (field(csv[i], "Discrepancy") = Yes) <=> differ
            /\ (m = h) => field(csv[i], "Discrepancy") = No

C2_Witness ==
    /\ \E i \in DataIdx :
          /\ field(csv[i], "diff_myers") = field(csv[i], "diff_hist")
          /\ field(csv[i], "Discrepancy") = No
    /\ \E i \in DataIdx :
          /\ field(csv[i], "diff_myers") # field(csv[i], "diff_hist")
          /\ field(csv[i], "Discrepancy") = No
    /\ \E i \in DataIdx :
          /\ LineCount(normalize_diff(field(csv[i], "diff_myers")))
               # LineCount(normalize_diff(field(csv[i], "diff_hist")))
          /\ field(csv[i], "Discrepancy") = Yes

\* C3: when the pipeline has finished, every qualifying (commit, file) pair
\* of the traversed commits has exactly one data line, and every data line
\* belongs to a qualifying pair.
C3_OneRowPerPair ==
    Finished =>
        /\ \A p \in Pairs :
              Qualifies(p) => Cardinality({ i \in DataIdx : LineOf(csv[i], p) }) = 1
        /\ \A i \in DataIdx : \E p \in Pairs : Qualifies(p) /\ LineOf(csv[i], p)
        /\ Cardinality(DataIdx) = Cardinality({ p \in Pairs : Qualifies(p) })

C3_Witness ==
    /\ Finished
    /\ Cardinality({ p \in Pairs : Qualifies(p) }) >= 3
    /\ \E p \in Pairs : ~Qualifies(p)
    /\ \E p \in Pairs : Qualifies(p) /\ p[1] = 1
    /\ \E r \in 1..Len(repos) : \E k \in 1..Len(traversed[r]) :
          \A j \in 1..Len(traversed[r][k].modified_files) : ~Qualifies(<<r, k, j>>)

\* C4: a commit without parents has no data line and no diff invocation,
\* whatever the paths of its modified files are.
C4_RootCommitExcluded ==
    \A r \in 1..Len(repos) : \A k \in 1..Len(traversed[r]) :
        traversed[r][k].parents = <<>> =>
            /\ \A i \in DataIdx :
                  ~(/\ field(csv[i], "repo") = repos[r].name
                    /\ field(csv[i], "commit_SHA") = traversed[r][k].hash)
            /\ \A n \in 1..Len(diff_calls) :
                  ~(/\ diff_calls[n].repo_path = path_join(BASE_DIR, repos[r].name)
                    /\ diff_calls[n].commit_hash = traversed[r][k].hash)

C4_Witness ==
    \E p \in Pairs :
        /\ CommitAt(p).parents = <<>>
        /\ ModAt(p).old_path # None /\ ModAt(p).new_path # None
        /\ CommitDone(p)
        /\ DataIdx # {}

\* C5: a modified file without old path or without new path gets no data
\* line, and the other files of its commit are processed all the same.
C5_PathAbsentSkipped ==
    /\ \A i \in DataIdx :
          /\ field(csv[i], "old_file_path") # None
          /\ field(csv[i], "new_file_path") # None
    /\ \A p \in Pairs :
          (ModAt(p).old_path = None \/ ModAt(p).new_path = None) =>
              /\ \A i \in DataIdx : ~LineOf(csv[i], p)
              /\ CommitDone(p) =>
                    \A j \in 1..Len(CommitAt(p).modified_files) :
                        Qualifies(<<p[1], p[2], j>>) =>
                            \E i \in DataIdx : LineOf(csv[i], <<p[1], p[2], j>>)

C5_Witness ==
    \E p \in Pairs :
        /\ CommitDone(p)
        /\ p[3] = 1
        /\ ModAt(p).new_path = None
        /\ Len(CommitAt(p).modified_files) >= 2
        /\ Qualifies(<<p[1], p[2], 2>>)
        /\ \E i \in DataIdx : LineOf(csv[i], <<p[1], p[2], 2>>)
        /\ \E q \in Pairs :
              /\ CommitDone(q) /\ q[3] = 1
              /\ ModAt(q).old_path = None
              /\ Len(CommitAt(q).modified_files) >= 2
              /\ Qualifies(<<q[1], q[2], 2>>)
              /\ \E i \in DataIdx : LineOf(csv[i], <<q[1], q[2], 2>>)

\* lexicographic order of positions
Before(p, q) ==
    \/ p[1] < q[1]
    \/ p[1] = q[1] /\ p[2] < q[2]
    \/ p[1] = q[1] /\ p[2] = q[2] /\ p[3] < q[3]

RowsInTraversalOrder ==
    /\ csv # <<>> => csv[1] = HeaderLine
    /\ \A i \in 2..Len(csv) : csv[i].kind = "row"
    /\ \A i, j \in DataIdx :
          i < j => \E p, q \in Pairs :
                      LineOf(csv[i], p) /\ LineOf(csv[j], q) /\ Before(p, q)

WrittenLinesKept ==
    /\ Len(csv') >= Len(csv)
    /\ SubSeq(csv', 1, Len(csv)) = csv

\* C6: one header line first, then the data lines by repository, commit
\* and file in traversal order; a step only appends to the dataset.
C6_TraversalOrder == [](RowsInTraversalOrder) /\ [][WrittenLinesKept]_vars

C6_Witness ==
    /\ Finished
    /\ \E i, j, n \in DataIdx :
          /\ i < j /\ j < n
          /\ field(csv[i], "repo") # field(csv[n], "repo")
          /\ field(csv[i], "repo") = field(csv[j], "repo")
          /\ field(csv[i], "commit_SHA") = field(csv[j], "commit_SHA")
    /\ \E i, j \in DataIdx :
          /\ i < j
          /\ field(csv[i], "repo") = field(csv[j], "repo")
          /\ field(csv[i], "commit_SHA") # field(csv[j], "commit_SHA")

\* C10: per repository at most max_commits commits are processed, they are
\* the first ones the traversal yields, every data line belongs to one of
\* them, every yielded commit is counted (with or without data lines), and
\* the count starts at zero for each repository.
C10_CommitCap ==
    /\ \A r \in 1..Len(repos) :
          /\ Len(traversed[r]) <= repos[r].max_commits
          /\ \A k \in 1..Len(traversed[r]) : traversed[r][k].hash = hash_of(k)
    /\ \A i \in DataIdx :
          \E r \in 1..Len(repos) :
              /\ field(csv[i], "repo") = repos[r].name
              /\ \E k \in 1..repos[r].max_commits :
                    field(csv[i], "commit_SHA") = hash_of(k)
    /\ pc \in {"commit", "mods"} =>
          /\ commit_count = Len(traversed[ri])
          /\ commit_count = pos
          /\ commit_count <= repos[ri].max_commits

C10_Witness ==
    /\ pc = "mods"
    /\ ri = 2
    /\ commit_count = repos[ri].max_commits
    /\ Len(traversed[1]) = repos[1].max_commits
    /\ commit_count > Len(traversed[1])
    /\ traversed[2][1].parents = <<>>
    /\ traversed[2][1].modified_files # <<>>
    /\ traversed[1][1].modified_files = <<>>
    /\ commit.hash = hash_of(commit_count)

\* the line starts with the object-index marker or a file-header marker
IsMarkerLine(line) ==
    \/ startswith(line, <<"i","n","d","e","x">>)
    \/ startswith(line, <<"-","-","-">>)
    \/ startswith(line, <<"+","+","+">>)

KeptIdx(L) == { i \in 1..Len(L) : ~IsMarkerLine(L[i]) }

\* the lines of L that start with no marker, stripped, in their order
RemainingStripped(L) ==
    [j \in 1..Cardinality(KeptIdx(L)) |->
        strip(L[CHOOSE i \in KeptIdx(L) :
                   Cardinality({ k \in KeptIdx(L) : k <= i }) = j])]

\* C1: normalizing the normalized text changes nothing.
C1_Idempotent == npc = "twice" => n2 = n1

\* C9: every line of T that starts with "index", "---" or "+++" is left
\* out; the result is the other lines of T, stripped, in their order,
\* joined by line breaks.
C9_HeadersStripped ==
    npc \in {"once", "twice"} =>
        LET L == splitlines(T)
        IN  /\ Len(lines1) = Len(L) - Cardinality({ i \in 1..Len(L) : IsMarkerLine(L[i]) })
            /\ lines1 = RemainingStripped(L)
            /\ n1 = join(<<"\n">>, RemainingStripped(L))

C9_Witness ==
    /\ npc = "once"
    /\ LET L == splitlines(T)
       IN  /\ \E i \in 1..Len(L) : IsMarkerLine(L[i])
           /\ \E i \in KeptIdx(L) : strip(L[i]) # L[i] /\ strip(L[i]) # <<>>
           /\ Len(lines1) >= 1
           /\ Len(lines1) < Len(L)

\* data lines with Discrepancy "Yes" whose new path is in the category
MismatchIdx(cat) ==
    { i \in DataIdx :
        /\ field(csv[i], "Discrepancy") = Yes
        /\ in_category(cat, field(csv[i], "new_file_path")) }

CategorySet == { CategoryNames[k] : k \in 1..Len(CategoryNames) }

\* C7: each category count is the number of "Yes" lines whose new path
\* matches that category, whatever other categories the path matches;
\* "No" lines count nowhere.
C7_IndependentCounts ==
    pc \in {"plot", "done"} =>
        /\ DOMAIN counts = CategorySet
        /\ \A cat \in CategorySet : counts[cat] = Cardinality(MismatchIdx(cat))

C7_Witness ==
    /\ pc = "plot"
    /\ \E i \in DataIdx :
          /\ i \in MismatchIdx("Source Code") /\ i \in MismatchIdx("Test Code")
          /\ counts["Source Code"] >= 1 /\ counts["Test Code"] >= 1
    /\ \E i \in DataIdx :
          /\ field(csv[i], "Discrepancy") = No
          /\ in_category("README", field(csv[i], "new_file_path"))
    /\ counts["README"] = 0

\* C8: the chart is saved exactly when some category count is nonzero;
\* without any "Yes" line all four printed counts are zero and no chart is
\* rendered.
C8_ChartIffNonzero ==
    pc = "done" =>
        /\ chart \in {"saved", "skipped"}
        /\ (chart = "saved") <=> (\E cat \in CategorySet : counts[cat] # 0)
        /\ (\A i \in DataIdx : field(csv[i], "Discrepancy") # Yes) =>
              /\ Len(printed) = Len(CategoryNames)
              /\ \A k \in 1..Len(printed) : printed[k] = <<CategoryNames[k], 0>>
              /\ chart = "skipped"

C8_Witness ==
    /\ pc = "done"
    /\ DataIdx # {}
    /\ \A i \in DataIdx : field(csv[i], "Discrepancy") # Yes
    /\ chart = "skipped"
    /\ \E i \in DataIdx : in_category("Test Code", field(csv[i], "new_file_path"))

====
